---- MODULE Spec2Model ----
(***************************************************************************)
(* NetDynFlow, netdynflow/metrics.py: the three metrics extracted from a   *)
(* dynamic communicability / flow tensor (TotalEvolution, NodeEvolution,   *)
(* Diversity), over a small model of the numpy arrays they work on.        *)
(*                                                                         *)
(* An ndarray is a record [shape, data]: shape is the tuple np.shape       *)
(* returns and data holds the entries in C (row-major) order.  Entries of  *)
(* the input tensor are integers (doubles that are represented exactly),   *)
(* so sums are exact; the scalars std() and mean() produce are kept as     *)
(* exact signed square roots of rationals together with the IEEE-754       *)
(* special values inf and nan.  Rounding of doubles is not modelled.       *)
(***************************************************************************)
EXTENDS Integers, Sequences, FiniteSets, TLC

VARIABLES dyntensor, op, directed, result, frames

vars == <<dyntensor, op, directed, result, frames>>

---------------------------------------------------------------------------
(* Bounds of the model. *)

\* Largest length of an axis of an input tensor.
MaxDim == 2

\* Largest number of entries of an input tensor.
MaxSize == 8

\* Largest number of non-zero entries of a generated input tensor.
MaxNonzero == 2

\* Number of threads calling the metrics concurrently (SpecThreads).
NumThreads == 2

\* The values the non-zero entries of a generated tensor are drawn from.
NonZeroValues == {-1, 1, 2}

---------------------------------------------------------------------------
(* Integer helpers. *)

Sign(x) == IF x < 0 THEN -1 ELSE IF x = 0 THEN 0 ELSE 1

RECURSIVE Gcd(_, _)
Gcd(a, b) == IF b = 0 THEN a ELSE Gcd(b, a % b)

RECURSIVE SeqSum(_)
SeqSum(s) == IF s = <<>> THEN 0 ELSE s[1] + SeqSum(Tail(s))

RECURSIVE Prod(_)
Prod(s) == IF s = <<>> THEN 1 ELSE s[1] * Prod(Tail(s))

---------------------------------------------------------------------------
(* numpy arrays. *)

\* Flat (C order) offset of the 0-based multi-index idx in an array of that shape.
RECURSIVE Ravel(_, _)
Ravel(idx, shape) ==
  IF idx = <<>> THEN 0
  ELSE idx[1] * Prod(Tail(shape)) + Ravel(Tail(idx), Tail(shape))

\* The 0-based multi-index of flat offset i in an array of that shape.
RECURSIVE Unravel(_, _)
Unravel(i, shape) ==
  IF shape = <<>> THEN <<>>
  ELSE LET below == Prod(Tail(shape))
       IN  <<i \div below>> \o Unravel(i % below, Tail(shape))

DropAt(s, k) == [j \in 1..(Len(s) - 1) |-> IF j < k THEN s[j] ELSE s[j + 1]]

InsertAt(s, k, v) ==
  [j \in 1..(Len(s) + 1) |-> IF j < k THEN s[j] ELSE IF j = k THEN v ELSE s[j - 1]]

Reverse(s) == [j \in 1..Len(s) |-> s[Len(s) + 1 - j]]

\* a[idx] for a full multi-index.
Get(a, idx) == a.data[Ravel(idx, a.shape) + 1]

\* np.shape(a)
NpShape(a) == a.shape

\* a.sum(axis=axis): the entries summed along one axis, which is removed.
SumAxis(a, axis) ==
  LET newshape == DropAt(a.shape, axis + 1)
      along == a.shape[axis + 1]
  IN  [shape |-> newshape,
       data  |-> [j \in 1..Prod(newshape) |->
                   SeqSum([k \in 1..along |->
                     Get(a, InsertAt(Unravel(j - 1, newshape), axis + 1, k - 1))])]]

\* a.T: the axes reversed.
Transpose(a) ==
  LET newshape == Reverse(a.shape)
  IN  [shape |-> newshape,
       data  |-> [j \in 1..Prod(newshape) |->
                   Get(a, Reverse(Unravel(j - 1, newshape)))]]

\* a[t]: the sub-array at position t of the first axis.
Item(a, t) ==
  LET sub == Prod(Tail(a.shape))
  IN  [shape |-> Tail(a.shape),
       data  |-> [j \in 1..sub |-> a.data[t * sub + j]]]

---------------------------------------------------------------------------
(* Floating-point scalars: s * sqrt(n / d) in lowest terms, inf, nan. *)

NaN == [k |-> "nan", s |-> 0, n |-> 0, d |-> 0]

Inf(s) == [k |-> "inf", s |-> s, n |-> 0, d |-> 0]

\* The finite value s * sqrt(n / d), n >= 0, d > 0.
Fin(s, n, d) ==
  IF n = 0 \/ s = 0 THEN [k |-> "fin", s |-> 0, n |-> 0, d |-> 1]
  ELSE LET g == Gcd(n, d)
       IN  [k |-> "fin", s |-> s, n |-> n \div g, d |-> d \div g]

\* The rational p / q, q > 0.
Rat(p, q) == Fin(Sign(p), p * p, q * q)

\* x / y on float64 scalars: numpy warns and yields inf or nan on a zero divisor.
FloatDiv(x, y) ==
  IF x.k = "nan" \/ y.k = "nan" THEN NaN
  ELSE IF x.k = "inf" THEN (IF y.k = "inf" THEN NaN
                            ELSE Inf(x.s * (IF y.s < 0 THEN -1 ELSE 1)))
  ELSE IF y.k = "inf" THEN Fin(0, 0, 1)
  ELSE IF y.s = 0 THEN (IF x.s = 0 THEN NaN ELSE Inf(x.s))
  ELSE Fin(x.s * y.s, x.n * y.d, x.d * y.n)

\* a.mean(): the sum of all entries over their number (nan for no entries).
Mean(a) ==
  LET size == Prod(a.shape)
  IN  IF size = 0 THEN NaN ELSE Rat(SeqSum(a.data), size)

\* Std with the sample correction (ddof=1) in place of numpy's default.
Std_sample(a) ==
  LET size == Prod(a.shape)
      total == SeqSum(a.data)
      dev2 == [j \in 1..size |-> (size * a.data[j] - total) * (size * a.data[j] - total)]
  IN  IF size <= 1 THEN NaN
      ELSE Fin(1, SeqSum(dev2), size * size * (size - 1))

\* a.std(): sqrt(mean(abs(a - a.mean())**2)), numpy's default ddof=0.
Std(a) ==
  LET size == Prod(a.shape)
      total == SeqSum(a.data)
      \* (a[j] - total/size)**2 = dev2[j] / size**2
      dev2 == [j \in 1..size |-> (size * a.data[j] - total) * (size * a.data[j] - total)]
  IN  IF size = 0 THEN NaN
      ELSE Fin(1, SeqSum(dev2), size * size * size)

\* np.zeros(n, np.float)
Zeros(n) == [shape |-> <<n>>, data |-> [j \in 1..n |-> Fin(0, 0, 1)]]

---------------------------------------------------------------------------
(* The metrics of metrics.py.  A call either returns a value or raises.    *)

Return(v) == [kind |-> "return", exc |-> "", value |-> v]

Raise(msg) == [kind |-> "raise", exc |-> msg, value |-> <<>>]

RankMsg == "Input not aligned. Tensor of rank-3 expected"

DimsMsg == "Input not aligned. Shape (nsteps x N x N) expected"

\* SecurityChecks without the assertion N1 == N2.
SecurityChecks_rankonly(tensor) ==
  IF Len(NpShape(tensor)) # 3 THEN RankMsg ELSE ""

\* 0) SECURITY CHECKS: the message of the assertion that fails, "" if none does.
SecurityChecks(tensor) ==
  LET tensorshape == NpShape(tensor)
  IN  IF Len(tensorshape) # 3 THEN RankMsg
      ELSE IF tensorshape[2] # tensorshape[3] THEN DimsMsg
      ELSE ""

\* TotalEvolution summing over the time axis first: dyntensor.sum(axis=0).sum(axis=1).
TotalEvolution_axis0(tensor) ==
  LET failed == SecurityChecks(tensor)
  IN  IF failed # "" THEN Raise(failed)
      ELSE Return(SumAxis(SumAxis(tensor, 0), 1))

TotalEvolution(tensor) ==
  LET failed == SecurityChecks(tensor)
      totaldyncom == SumAxis(SumAxis(tensor, 1), 1)
  IN  IF failed # "" THEN Raise(failed) ELSE Return(totaldyncom)

\* The value bound to the parameter directed: False when the caller omits it.
DirectedParam(arg) == IF arg = "omitted" THEN FALSE ELSE arg = "True"

\* np.transpose(a, (0, 2, 1)) of a rank-3 array.
SwapLastAxes(a) ==
  LET newshape == <<a.shape[1], a.shape[3], a.shape[2]>>
  IN  [shape |-> newshape,
       data  |-> [j \in 1..Prod(newshape) |->
                   LET idx == Unravel(j - 1, newshape)
                   IN  Get(a, <<idx[1], idx[3], idx[2]>>)]]

\* NodeEvolution returning (outnodedyn, innodedyn).
NodeEvolution_swapped(tensor, directedflag) ==
  LET failed == SecurityChecks(tensor)
  IN  IF failed # "" THEN Raise(failed)
      ELSE Return(<<Transpose(SumAxis(tensor, 2)), Transpose(SumAxis(tensor, 1))>>)

\* NodeEvolution with the .T of outnodedyn forgotten.
NodeEvolution_noT(tensor, directedflag) ==
  LET failed == SecurityChecks(tensor)
  IN  IF failed # "" THEN Raise(failed)
      ELSE Return(<<Transpose(SumAxis(tensor, 1)), SumAxis(tensor, 2)>>)

\* NodeEvolution with both sums taken along axis 1.
NodeEvolution_sameaxis(tensor, directedflag) ==
  LET failed == SecurityChecks(tensor)
  IN  IF failed # "" THEN Raise(failed)
      ELSE Return(<<Transpose(SumAxis(tensor, 1)), Transpose(SumAxis(tensor, 1))>>)

\* NodeEvolution symmetrising the tensor of an undirected network first.
NodeEvolution_symmetrize(tensor, directedflag) ==
  LET failed == SecurityChecks(tensor)
      swapped == SwapLastAxes(tensor)
      used == IF directedflag THEN tensor
              ELSE [tensor EXCEPT !.data =
                      [j \in 1..Len(tensor.data) |-> tensor.data[j] + swapped.data[j]]]
  IN  IF failed # "" THEN Raise(failed)
      ELSE Return(<<Transpose(SumAxis(used, 1)), Transpose(SumAxis(used, 2))>>)

NodeEvolution(tensor, directedflag) ==
  LET failed == SecurityChecks(tensor)
      innodedyn == Transpose(SumAxis(tensor, 1))
      outnodedyn == Transpose(SumAxis(tensor, 2))
      nodedyn == <<innodedyn, outnodedyn>>
  IN  IF failed # "" THEN Raise(failed) ELSE Return(nodedyn)

\* diversity[t] = dyntensor[t].std() / dyntensor[t].mean()
DiversityAt(tensor, t) == FloatDiv(Std(Item(tensor, t)), Mean(Item(tensor, t)))

\* The array diversity after the loop body has run for t.
DiversityStore(diversity, tensor, t) ==
  [diversity EXCEPT !.data[t + 1] = DiversityAt(tensor, t)]

\* for t in range(nsteps), from t on.
RECURSIVE DiversityLoop(_, _, _, _)
DiversityLoop(diversity, tensor, t, nsteps) ==
  IF t >= nsteps THEN diversity
  ELSE DiversityLoop(DiversityStore(diversity, tensor, t), tensor, t + 1, nsteps)

\* Diversity failing fast on a slice of mean zero.
Diversity_failfast(tensor) ==
  LET failed == SecurityChecks(tensor)
      nsteps == NpShape(tensor)[1]
  IN  IF failed # "" THEN Raise(failed)
      ELSE IF \E t \in 0..(nsteps - 1) : Mean(Item(tensor, t)) = Fin(0, 0, 1)
        THEN Raise("float division by zero")
      ELSE Return(DiversityLoop(Zeros(nsteps), tensor, 0, nsteps))

\* Diversity reading the first slice before the loop.
Diversity_firstslice(tensor) ==
  LET failed == SecurityChecks(tensor)
      nsteps == NpShape(tensor)[1]
  IN  IF failed # "" THEN Raise(failed)
      ELSE IF nsteps = 0 THEN Raise("index 0 is out of bounds for axis 0 with size 0")
      ELSE Return(DiversityLoop(Zeros(nsteps), tensor, 0, nsteps))

Diversity(tensor) ==
  LET failed == SecurityChecks(tensor)
      nsteps == NpShape(tensor)[1]
  IN  IF failed # "" THEN Raise(failed)
      ELSE Return(DiversityLoop(Zeros(nsteps), tensor, 0, nsteps))

---------------------------------------------------------------------------
(* The input tensors of the model. *)

Dims == 0..MaxDim

\* Shape (T, N, N).
ValidShapes ==
  {sh \in {<<T, N, N>> : T \in Dims, N \in Dims} : Prod(sh) <= MaxSize}

\* Rank 3 with different trailing dimensions, and ranks 1, 2 and 4.
InvalidShapes ==
  {sh \in {<<T, N1, N2>> : T \in Dims, N1 \in Dims, N2 \in Dims}
          \cup {<<N>> : N \in Dims}
          \cup {<<N1, N2>> : N1 \in Dims, N2 \in Dims}
          \cup {<<T, N, N, N>> : T \in Dims, N \in Dims} :
     /\ Prod(sh) <= MaxSize
     /\ ~(Len(sh) = 3 /\ sh[2] = sh[3])}

\* The scenario of the documentation: slices [[1,2],[3,4]] and [[0,0],[0,0]].
ExampleTensor == [shape |-> <<2, 2, 2>>, data |-> <<1, 2, 3, 4, 0, 0, 0, 0>>]

\* A slice of mean zero and non-zero spread next to a slice of non-zero mean.
ZeroMeanTensor == [shape |-> <<2, 2, 2>>, data |-> <<1, -1, 2, -2, 1, 2, 3, 4>>]

ZerosOfShape(sh) == [shape |-> sh, data |-> [j \in 1..Prod(sh) |-> 0]]

\* The tensors before the caller has written an entry, and the two scenarios.
InitialTensors ==
  {ZerosOfShape(sh) : sh \in ValidShapes \cup InvalidShapes}
  \cup {ExampleTensor, ZeroMeanTensor}

NonzeroCount(tensor) == Cardinality({p \in 1..Len(tensor.data) : tensor.data[p] # 0})

IsValid(tensor) == Len(tensor.shape) = 3 /\ tensor.shape[2] = tensor.shape[3]

\* The contents of a tensor failing the security checks are never read:
\* one non-zero entry is enough to tell it from an empty result.
NonzeroLimit(tensor) == IF IsValid(tensor) THEN MaxNonzero ELSE 1

---------------------------------------------------------------------------
(* Spec: one caller, one call after the other on the tensor it owns. *)

DirectedArgs == {"omitted", "True", "False"}

NoCall == [kind |-> "none", exc |-> "", value |-> <<>>]

IdleFrames == [th \in 1..NumThreads |-> [pc |-> "idle"]]

Init ==
  /\ dyntensor \in InitialTensors
  /\ op = "none"
  /\ directed = "omitted"
  /\ result = NoCall
  /\ frames = IdleFrames

\* The caller, who owns the tensor, writes an entry of it before the first call.
SetEntry ==
  /\ op = "none"
  /\ NonzeroCount(dyntensor) < NonzeroLimit(dyntensor)
  /\ \E p \in 1..Len(dyntensor.data), v \in NonZeroValues :
       /\ dyntensor.data[p] = 0
       /\ dyntensor' = [dyntensor EXCEPT !.data[p] = v]
  /\ UNCHANGED <<op, directed, result, frames>>

CallTotalEvolution ==
  /\ op' = "TotalEvolution"
  /\ directed' = "omitted"
  /\ result' = TotalEvolution(dyntensor)
  /\ UNCHANGED <<dyntensor, frames>>

CallNodeEvolution ==
  \E arg \in DirectedArgs :
    /\ op' = "NodeEvolution"
    /\ directed' = arg
    /\ result' = NodeEvolution(dyntensor, DirectedParam(arg))
    /\ UNCHANGED <<dyntensor, frames>>

CallDiversity ==
  /\ op' = "Diversity"
  /\ directed' = "omitted"
  /\ result' = Diversity(dyntensor)
  /\ UNCHANGED <<dyntensor, frames>>

Next == SetEntry \/ CallTotalEvolution \/ CallNodeEvolution \/ CallDiversity

Spec == Init /\ [][Next]_vars

---------------------------------------------------------------------------
(* SpecThreads: NumThreads threads call the metrics on the same tensor,    *)
(* each call advancing one statement (one numpy call) at a time.           *)

Threads == 1..NumThreads

Functions == {"TotalEvolution", "NodeEvolution", "Diversity"}

\* The tensors the threads share: the two scenarios, an empty time axis,
\* different trailing dimensions, and rank 2.
SampleTensors ==
  { ExampleTensor,
    ZeroMeanTensor,
    [shape |-> <<0, 2, 2>>, data |-> <<>>],
    [shape |-> <<2, 1, 2>>, data |-> <<1, 2, 3, 4>>],
    [shape |-> <<2, 2>>, data |-> <<1, 2, 3, 4>>] }

InitThreads ==
  /\ dyntensor \in SampleTensors
  /\ op = "none"
  /\ directed = "omitted"
  /\ result = NoCall
  /\ frames = IdleFrames

\* A thread enters one of the three functions.
ThreadCall(th) ==
  /\ frames[th].pc = "idle"
  /\ \E fn \in Functions, arg \in DirectedArgs :
       /\ fn # "NodeEvolution" => arg = "omitted"
       /\ frames' = [frames EXCEPT ![th] =
                       [pc |-> "checks", fn |-> fn, directed |-> DirectedParam(arg)]]
  /\ UNCHANGED <<dyntensor, op, directed, result>>

\* 0) SECURITY CHECKS, the same four lines in the three functions.
ThreadChecks(th) ==
  /\ frames[th].pc = "checks"
  /\ LET failed == SecurityChecks(dyntensor)
         f == frames[th]
     IN  frames' = [frames EXCEPT ![th] =
           IF failed # ""
             THEN [pc |-> "raised", fn |-> f.fn, directed |-> f.directed,
                   result |-> Raise(failed)]
             ELSE [pc |-> "body", fn |-> f.fn, directed |-> f.directed,
                   nsteps |-> NpShape(dyntensor)[1]]]
  /\ UNCHANGED <<dyntensor, op, directed, result>>

\* The first sum written into row 0 of every slice of the caller's tensor:
\* dyntensor.sum(axis=1, out=dyntensor[:, 0]).
TotalEvolutionSum1_inplace(th) ==
  /\ frames[th].pc = "body" /\ frames[th].fn = "TotalEvolution"
  /\ frames' = [frames EXCEPT ![th] =
                  [pc |-> "summed", fn |-> "TotalEvolution",
                   directed |-> frames[th].directed,
                   tmp |-> SumAxis(dyntensor, 1)]]
  /\ dyntensor' = [dyntensor EXCEPT !.data =
       [p \in 1..Len(dyntensor.data) |->
          LET idx == Unravel(p - 1, dyntensor.shape)
          IN  IF idx[2] = 0 THEN Get(SumAxis(dyntensor, 1), <<idx[1], idx[3]>>)
              ELSE dyntensor.data[p]]]
  /\ UNCHANGED <<op, directed, result>>

\* dyntensor.sum(axis=1): a new array, the first call of the statement.
TotalEvolutionSum1(th) ==
  /\ frames[th].pc = "body" /\ frames[th].fn = "TotalEvolution"
  /\ frames' = [frames EXCEPT ![th] =
                  [pc |-> "summed", fn |-> "TotalEvolution",
                   directed |-> frames[th].directed,
                   tmp |-> SumAxis(dyntensor, 1)]]
  /\ UNCHANGED <<dyntensor, op, directed, result>>

\* totaldyncom = (...).sum(axis=1); return totaldyncom
TotalEvolutionSum2(th) ==
  /\ frames[th].pc = "summed" /\ frames[th].fn = "TotalEvolution"
  /\ frames' = [frames EXCEPT ![th] =
                  [pc |-> "returned", fn |-> "TotalEvolution",
                   directed |-> frames[th].directed,
                   result |-> Return(SumAxis(frames[th].tmp, 1))]]
  /\ UNCHANGED <<dyntensor, op, directed, result>>

\* innodedyn = dyntensor.sum(axis=1).T
NodeEvolutionIn(th) ==
  /\ frames[th].pc = "body" /\ frames[th].fn = "NodeEvolution"
  /\ frames' = [frames EXCEPT ![th] =
                  [pc |-> "inputs", fn |-> "NodeEvolution",
                   directed |-> frames[th].directed,
                   innodedyn |-> Transpose(SumAxis(dyntensor, 1))]]
  /\ UNCHANGED <<dyntensor, op, directed, result>>

\* outnodedyn = dyntensor.sum(axis=2).T; nodedyn = (innodedyn, outnodedyn); return
NodeEvolutionOut(th) ==
  /\ frames[th].pc = "inputs" /\ frames[th].fn = "NodeEvolution"
  /\ LET outnodedyn == Transpose(SumAxis(dyntensor, 2))
     IN  frames' = [frames EXCEPT ![th] =
                      [pc |-> "returned", fn |-> "NodeEvolution",
                       directed |-> frames[th].directed,
                       result |-> Return(<<frames[th].innodedyn, outnodedyn>>)]]
  /\ UNCHANGED <<dyntensor, op, directed, result>>

\* diversity = np.zeros(nsteps, np.float)
DiversityAlloc(th) ==
  /\ frames[th].pc = "body" /\ frames[th].fn = "Diversity"
  /\ frames' = [frames EXCEPT ![th] =
                  [pc |-> "loop", fn |-> "Diversity",
                   directed |-> frames[th].directed,
                   nsteps |-> frames[th].nsteps, t |-> 0,
                   diversity |-> Zeros(frames[th].nsteps)]]
  /\ UNCHANGED <<dyntensor, op, directed, result>>

\* One pass of the loop: diversity[t] = dyntensor[t].std() / dyntensor[t].mean()
DiversityBody(th) ==
  /\ frames[th].pc = "loop" /\ frames[th].t < frames[th].nsteps
  /\ frames' = [frames EXCEPT ![th].diversity =
                    DiversityStore(frames[th].diversity, dyntensor, frames[th].t),
                  ![th].t = frames[th].t + 1]
  /\ UNCHANGED <<dyntensor, op, directed, result>>

\* The loop is over: return diversity
DiversityReturn(th) ==
  /\ frames[th].pc = "loop" /\ frames[th].t >= frames[th].nsteps
  /\ frames' = [frames EXCEPT ![th] =
                  [pc |-> "returned", fn |-> "Diversity",
                   directed |-> frames[th].directed,
                   result |-> Return(frames[th].diversity)]]
  /\ UNCHANGED <<dyntensor, op, directed, result>>

\* The caller has the outcome; the frame is gone and the thread may call again.
ThreadDone(th) ==
  /\ frames[th].pc \in {"returned", "raised"}
  /\ frames' = [frames EXCEPT ![th] = [pc |-> "idle"]]
  /\ UNCHANGED <<dyntensor, op, directed, result>>

NextThreads ==
  \E th \in Threads :
    \/ ThreadCall(th)
    \/ ThreadChecks(th)
    \/ TotalEvolutionSum1(th)
    \/ TotalEvolutionSum2(th)
    \/ NodeEvolutionIn(th)
    \/ NodeEvolutionOut(th)
    \/ DiversityAlloc(th)
    \/ DiversityBody(th)
    \/ DiversityReturn(th)
    \/ ThreadDone(th)

SpecThreads == InitThreads /\ [][NextThreads]_vars

---------------------------------------------------------------------------
(* What the claims are stated with: the entries of the caller's tensor     *)
(* read directly, and the entries of a result read in row-major order.     *)

\* f[0] + ... + f[n-1]
RECURSIVE SumFn(_, _)
SumFn(f, n) == IF n = 0 THEN 0 ELSE f[n - 1] + SumFn(f, n - 1)

NSteps == dyntensor.shape[1]

NNodes == dyntensor.shape[2]

\* tensor[t][i][j] of the caller's tensor of shape (T, N, N).
Entry(t, i, j) == dyntensor.data[t * NNodes * NNodes + i * NNodes + j + 1]

ColumnSum(t, i) == SumFn([k \in 0..(NNodes - 1) |-> Entry(t, k, i)], NNodes)

RowSum(t, i) == SumFn([k \in 0..(NNodes - 1) |-> Entry(t, i, k)], NNodes)

SliceSum(t) == SumFn([i \in 0..(NNodes - 1) |-> RowSum(t, i)], NNodes)

SliceSumSq(t) ==
  SumFn([i \in 0..(NNodes - 1) |->
          SumFn([k \in 0..(NNodes - 1) |-> Entry(t, i, k) * Entry(t, i, k)], NNodes)],
        NNodes)

\* arr[i][t] of an array of shape (N, T).
At(arr, i, t) == arr.data[i * NSteps + t + 1]

Returned(o) == op = o /\ result.kind = "return"

\* x is the population std of slice t over its mean, S = sum, Q = sum of squares,
\* n = N*N entries: sqrt(n*Q - S*S) / S.
IsStdOverMean(x, t) ==
  LET n == NNodes * NNodes
      S == SliceSum(t)
      spread == n * SliceSumSq(t) - S * S
  IN  /\ x.k = "fin"
      /\ x.s = (IF spread = 0 THEN 0 ELSE Sign(S))
      /\ x.n * S * S = x.d * spread

---------------------------------------------------------------------------
(* C1: on every tensor of shape (T, N, N), T >= 0, N >= 0, TotalEvolution  *)
(* returns a series of length exactly T whose element t is the sum of all  *)
(* N*N entries of slice t (0 when N = 0).                                  *)
TotalEvolutionSumsSlices ==
  (op = "TotalEvolution" /\ IsValid(dyntensor)) =>
    /\ result.kind = "return"
    /\ result.value.shape = <<NSteps>>
    /\ Len(result.value.data) = NSteps
    /\ \A t \in 0..(NSteps - 1) : result.value.data[t + 1] = SliceSum(t)

TotalEvolutionWitness ==
  /\ Returned("TotalEvolution")
  /\ dyntensor.shape = <<2, 2, 2>>
  /\ result.value.data[1] # 0
  /\ result.value.data[2] # 0
  /\ result.value.data[1] # result.value.data[2]

(* C2: on every valid tensor NodeEvolution returns the pair (inputs,       *)
(* outputs), each of shape (N, T), with inputs[i][t] the sum of column i   *)
(* of slice t and outputs[i][t] the sum of row i of slice t.               *)
NodeEvolutionColumnsThenRows ==
  (op = "NodeEvolution" /\ IsValid(dyntensor)) =>
    /\ result.kind = "return"
    /\ Len(result.value) = 2
    /\ result.value[1].shape = <<NNodes, NSteps>>
    /\ result.value[2].shape = <<NNodes, NSteps>>
    /\ Len(result.value[1].data) = NNodes * NSteps
    /\ Len(result.value[2].data) = NNodes * NSteps
    /\ \A i \in 0..(NNodes - 1), t \in 0..(NSteps - 1) :
         /\ At(result.value[1], i, t) = ColumnSum(t, i)
         /\ At(result.value[2], i, t) = RowSum(t, i)

NodeEvolutionWitness ==
  /\ Returned("NodeEvolution")
  /\ dyntensor = ExampleTensor
  /\ result.value[1].data = <<4, 0, 6, 0>>
  /\ result.value[2].data = <<3, 0, 7, 0>>

(* C3: on every valid tensor and every time step t, the inputs of all      *)
(* nodes at t and the outputs of all nodes at t both add up to             *)
(* TotalEvolution at t.                                                    *)
MassConserved ==
  IsValid(dyntensor) =>
    LET total == IF op = "TotalEvolution" THEN result ELSE TotalEvolution(dyntensor)
        nodes == IF op = "NodeEvolution" THEN result
                 ELSE NodeEvolution(dyntensor, FALSE)
        MassOf(arr, t) == SumFn([i \in 0..(NNodes - 1) |-> At(arr, i, t)], NNodes)
    IN  op \in {"TotalEvolution", "NodeEvolution"} =>
          /\ total.kind = "return" /\ nodes.kind = "return"
          /\ Len(total.value.data) = NSteps
          /\ \A t \in 0..(NSteps - 1) :
               /\ MassOf(nodes.value[1], t) = total.value.data[t + 1]
               /\ MassOf(nodes.value[2], t) = total.value.data[t + 1]

MassConservedWitness ==
  /\ Returned("NodeEvolution")
  /\ dyntensor.shape = <<2, 2, 2>>
  /\ result.value[1] # result.value[2]
  /\ TotalEvolution(dyntensor).value.data[1] # 0
  /\ At(result.value[1], 0, 0) + At(result.value[1], 1, 0)
       = TotalEvolution(dyntensor).value.data[1]

(* C4: each of the three operations fails with the shape error, and yields *)
(* no output, on an input whose rank is not 3 or whose second and third    *)
(* dimensions differ; it never fails on a rank-3 input with equal trailing *)
(* dimensions.                                                             *)
ShapeErrorIffMisaligned ==
  op # "none" =>
    LET shape == dyntensor.shape
    IN  IF Len(shape) # 3
          THEN result.kind = "raise" /\ result.exc = RankMsg /\ result.value = <<>>
        ELSE IF shape[2] # shape[3]
          THEN result.kind = "raise" /\ result.exc = DimsMsg /\ result.value = <<>>
        ELSE result.kind = "return"

ShapeErrorWitness ==
  /\ op = "Diversity"
  /\ dyntensor.shape = <<2, 1, 2>>
  /\ result.kind = "raise"

(* C5: on every valid tensor with N >= 1, Diversity returns a series of    *)
(* length exactly T whose element t is the population standard deviation   *)
(* of the entries of slice t over their mean, whenever that mean is not 0. *)
DiversityIsStdOverMean ==
  (op = "Diversity" /\ IsValid(dyntensor) /\ NNodes >= 1) =>
    /\ result.kind = "return"
    /\ result.value.shape = <<NSteps>>
    /\ Len(result.value.data) = NSteps
    /\ \A t \in 0..(NSteps - 1) :
         SliceSum(t) # 0 => IsStdOverMean(result.value.data[t + 1], t)

DiversityWitness ==
  /\ Returned("Diversity")
  /\ dyntensor = ExampleTensor
  /\ result.value.data[1] = [k |-> "fin", s |-> 1, n |-> 1, d |-> 5]

(* C6: when the mean of slice t of a valid tensor is exactly zero,         *)
(* Diversity raises nothing: it returns a series of length T whose element *)
(* t is inf or nan, and whose elements at the steps of non-zero mean are   *)
(* still std over mean.                                                    *)
ZeroMeanGivesSpecialValue ==
  (op = "Diversity" /\ IsValid(dyntensor) /\ NNodes >= 1) =>
    \A t \in 0..(NSteps - 1) :
      SliceSum(t) = 0 =>
        /\ result.kind = "return"
        /\ Len(result.value.data) = NSteps
        /\ result.value.data[t + 1].k \in {"inf", "nan"}
        /\ \A u \in 0..(NSteps - 1) :
             SliceSum(u) # 0 => IsStdOverMean(result.value.data[u + 1], u)

ZeroMeanWitness ==
  /\ Returned("Diversity")
  /\ dyntensor = ZeroMeanTensor
  /\ result.value.data[1] = Inf(1)
  /\ result.value.data[2] = [k |-> "fin", s |-> 1, n |-> 1, d |-> 5]

(* C7: on a tensor of shape (0, N, N) no operation fails: TotalEvolution   *)
(* and Diversity return an empty series and NodeEvolution a pair of arrays *)
(* of shape (N, 0).                                                        *)
EmptyTimeAxisGivesEmptyResults ==
  (IsValid(dyntensor) /\ NSteps = 0 /\ op # "none") =>
    /\ result.kind = "return"
    /\ op \in {"TotalEvolution", "Diversity"} =>
         result.value.shape = <<0>> /\ Len(result.value.data) = 0
    /\ op = "NodeEvolution" =>
         /\ Len(result.value) = 2
         /\ \A e \in 1..2 : /\ result.value[e].shape = <<NNodes, 0>>
                            /\ Len(result.value[e].data) = 0

EmptyTimeAxisWitness ==
  /\ Returned("NodeEvolution")
  /\ dyntensor.shape = <<0, 2, 2>>
  /\ result.value[1].shape = <<2, 0>>

(* C8: the flag directed does not influence NodeEvolution: with the flag   *)
(* set the other way the call has the same outcome (the same pair or the   *)
(* same failure), and leaving the flag out is passing False.               *)
SameOutcome(x, y) ==
  /\ x.kind = y.kind
  /\ x.exc = y.exc
  /\ x.kind = "return" => x.value = y.value

DirectedFlagIgnored ==
  op = "NodeEvolution" =>
    /\ SameOutcome(result, NodeEvolution(dyntensor, ~DirectedParam(directed)))
    /\ directed = "omitted" => SameOutcome(result, NodeEvolution(dyntensor, FALSE))

DirectedFlagWitness ==
  /\ Returned("NodeEvolution")
  /\ directed = "True"
  /\ dyntensor.shape = <<2, 2, 2>>
  /\ result.value[1] # result.value[2]

(* C10: NodeEvolution is dual under transposition of every slice: on the   *)
(* tensor B with B[t][i][j] = A[t][j][i] it returns the pair of A with its *)
(* two elements swapped; when every slice of A is symmetric the inputs and *)
(* the outputs of A are equal.                                             *)
SlicesTransposed ==
  [shape |-> dyntensor.shape,
   data  |-> [p \in 1..Len(dyntensor.data) |->
               LET q == p - 1
                   t == q \div (NNodes * NNodes)
                   i == (q % (NNodes * NNodes)) \div NNodes
                   j == q % NNodes
               IN  Entry(t, j, i)]]

TransposeSwapsInputsAndOutputs ==
  (op = "NodeEvolution" /\ IsValid(dyntensor)) =>
    LET ofB == NodeEvolution(SlicesTransposed, DirectedParam(directed))
    IN  /\ result.kind = "return" /\ ofB.kind = "return"
        /\ ofB.value = <<result.value[2], result.value[1]>>
        /\ SlicesTransposed = dyntensor => result.value[1] = result.value[2]

TransposeWitness ==
  /\ Returned("NodeEvolution")
  /\ dyntensor.shape = <<2, 2, 2>>
  /\ SlicesTransposed # dyntensor
  /\ result.value[1] # result.value[2]
  /\ NodeEvolution(SlicesTransposed, FALSE).value[1] = result.value[2]

(* C9: in any interleaving of calls to the three operations on the same    *)
(* tensor, no step of a call modifies the tensor, and every call that      *)
(* ends, also one a thread makes after earlier calls, ends with the        *)
(* outcome the operation has when it runs alone on that tensor.            *)
Alone(fn, flag, tensor) ==
  IF fn = "TotalEvolution" THEN TotalEvolution(tensor)
  ELSE IF fn = "NodeEvolution" THEN NodeEvolution(tensor, flag)
  ELSE Diversity(tensor)

CallsDoNotInterfere ==
  [][ /\ dyntensor' = dyntensor
      /\ \A th \in Threads :
           frames'[th].pc \in {"returned", "raised"} =>
             SameOutcome(frames'[th].result,
                         Alone(frames'[th].fn, frames'[th].directed, dyntensor)) ]_vars

\* A Diversity call has returned its series, inf at the step of mean zero,
\* while another thread is between the two sums of NodeEvolution.
InterleavedCallsWitness ==
  /\ dyntensor = ZeroMeanTensor
  /\ frames[1].pc = "returned" /\ frames[1].fn = "Diversity"
  /\ frames[1].result.value.data[1] = Inf(1)
  /\ frames[2].pc = "inputs" /\ frames[2].fn = "NodeEvolution"

====
